---- MODULE Spec2Model ----
(***************************************************************************)
(* gh-reinvite (src/src/gh_reinvite/cli.py): one invocation of the CLI is  *)
(* a linear workflow of blocking GitHub CLI calls                          *)
(*   auth status -> repo view -> collaborator check -> invitation listing  *)
(*   -> confirmation -> removal -> countdown -> invite.                    *)
(* The model has the tool's local state, the log of the calls one run has  *)
(* attempted, the hosting service's collaborator set and invitation list   *)
(* for the repository, and a summary of the run before this one.           *)
(* Strings the code inspects (repository, logins) are sequences of         *)
(* one-character strings.                                                  *)
(***************************************************************************)
EXTENDS Integers, Sequences, FiniteSets, TLC

\* ---------------------------------------------------------------- bounds
MaxDelay == 2
MaxRuns == 2
MaxPerm == 1

\* ------------------------------------------------------- program constants
VALID_PERMISSIONS == <<"pull", "triage", "push", "maintain", "admin">>

\* --permission values a run is started with
Permissions == { VALID_PERMISSIONS[i] : i \in 1..MaxPerm }

\* --delay values a run is started with
Delays == 0..MaxDelay

\* ------------------------------------------------------------------ strings
\* str.lower() on one character of the alphabet the model uses
LowerChar(c) ==
    CASE c = "A" -> "a"
      [] c = "B" -> "b"
      [] c = "L" -> "l"
      [] c = "O" -> "o"
      [] OTHER -> c

\* str.lower()
Lower(s) == [i \in DOMAIN s |-> LowerChar(s[i])]

\* `"/" in repo`
HasSlash(repo) == \E i \in DOMAIN repo : repo[i] = "/"

\* the format test of validate_repository: the string is refused only when it
\* holds no "/" at all
FormatAccepted(repo) == HasSlash(repo)

\* REPOSITORY arguments: owner/name, and strings that are not of that form
Repositories ==
    { <<"o", "/", "r">>,            \* owner/name
      <<"o", "r">>,                 \* no separator
      <<"/", "r">> }                \* empty owner

\* USERNAME arguments, as typed
Usernames == { <<"a", "l">>, <<"A", "l">> }

\* ------------------------------------------------------------ the service
\* The accounts of the hosting service, in the casing the service stores and
\* returns as invitee login.
Accounts == { <<"A", "l">>, <<"b", "o">> }

\* The account a username of a request path names (the service compares
\* logins without regard to case).
Resolve(u) == CHOOSE a \in Accounts : Lower(a) = Lower(u)

\* the identifier of the invitation an account holds when the model starts
InitialId(a) == IF a = <<"A", "l">> THEN 2 ELSE 1

\* Invitation lists the repository can hold at the start: one invitation per
\* account at most, in either order, identifiers positive and distinct.
InvitationLists ==
    { <<>> }
    \cup { <<[id |-> InitialId(a), login |-> a]>> : a \in Accounts }
    \cup { <<[id |-> InitialId(p[1]), login |-> p[1]],
              [id |-> InitialId(p[2]), login |-> p[2]]>> :
             p \in { q \in Accounts \X Accounts : q[1] # q[2] } }

\* Collaborator sets the repository can have at the start: nobody, or every
\* account.
CollaboratorSets == { {}, Accounts }

\* identifiers in use
IdsOf(list) == { list[i].id : i \in DOMAIN list }

\* an identifier the service has not handed out for this repository
FreshId(list, used) ==
    CHOOSE n \in 1..(Cardinality(used \cup IdsOf(list)) + 1) :
        n \notin (used \cup IdsOf(list))

\* the list without the invitation of identifier id
RECURSIVE WithoutId(_, _)
WithoutId(list, id) ==
    IF list = <<>> THEN <<>>
    ELSE IF Head(list).id = id THEN WithoutId(Tail(list), id)
    ELSE <<Head(list)>> \o WithoutId(Tail(list), id)

\* owner/name as the specification words it: exactly one "/" that splits two
\* non-empty segments
WellFormedRepo(repo) ==
    /\ Cardinality({ i \in DOMAIN repo : repo[i] = "/" }) = 1
    /\ repo[1] # "/"
    /\ repo[Len(repo)] # "/"

\* gh repo view: status of the answer; the service holds repositories under
\* names of the form owner/name only
RepoViewStatus(repo, found) == IF WellFormedRepo(repo) /\ found THEN 0 ELSE 1

\* GET repos/{repo}/collaborators/{username}: status of the answer
CollaboratorStatus(cs, u) == IF Resolve(u) \in cs THEN 0 ELSE 1

\* DELETE repos/{repo}/collaborators/{username}
AfterRemoveCollaborator(cs, u) == cs \ {Resolve(u)}

\* DELETE repos/{repo}/invitations/{id}
AfterRemoveInvitation(list, id) == WithoutId(list, id)

\* PUT repos/{repo}/collaborators/{username}: a collaborator keeps the access
\* (no invitation), an invited account keeps its invitation, any other account
\* gets a new invitation at the end of the list.
AfterInvite(cs, list, used, u) ==
    IF Resolve(u) \in cs THEN list
    ELSE IF \E i \in DOMAIN list : list[i].login = Resolve(u) THEN list
    ELSE Append(list, [id |-> FreshId(list, used), login |-> Resolve(u)])

\* --------------------------------------------- the invitation listing's body
\* What `gh api repos/{repo}/invitations` prints. kind: "empty" (nothing),
\* "notjson" (json.loads raises JSONDecodeError), "object" (a JSON object with
\* members, such as an error message), "list" (a JSON array of objects, recs).
\* A record's invitee is "absent", "null" or "user" (an object with login);
\* its id is absent when hasId is FALSE.
NoBody == [kind |-> "empty", recs |-> <<>>]

\* the body of a sound answer: the repository's invitations in list order
ListingOf(list) ==
    [kind |-> "list",
     recs |-> [i \in DOMAIN list |->
                 [invitee |-> "user", login |-> list[i].login,
                  hasId |-> TRUE, id |-> list[i].id]]]

\* the record at position k replaced by r
ReplaceAt(recs, k, r) == [i \in DOMAIN recs |-> IF i = k THEN r ELSE recs[i]]

\* bodies that are not a sound listing of list: no list, or the list with one
\* record damaged (invitee null or absent, id absent or 0), or the list
\* preceded by a copy of one record without its id
BrokenListings(list) ==
    LET good == ListingOf(list).recs IN
    { [kind |-> "empty", recs |-> <<>>],
      [kind |-> "notjson", recs |-> <<>>],
      [kind |-> "object", recs |-> <<>>] }
    \cup { [kind |-> "list", recs |-> ReplaceAt(good, k, [good[k] EXCEPT !.invitee = "null"])] :
             k \in DOMAIN good }
    \cup { [kind |-> "list", recs |-> ReplaceAt(good, k, [good[k] EXCEPT !.invitee = "absent"])] :
             k \in DOMAIN good }
    \cup { [kind |-> "list", recs |-> ReplaceAt(good, k, [good[k] EXCEPT !.hasId = FALSE])] :
             k \in DOMAIN good }
    \cup { [kind |-> "list", recs |-> ReplaceAt(good, k, [good[k] EXCEPT !.id = 0])] :
             k \in DOMAIN good }
    \cup { [kind |-> "list", recs |-> <<[good[k] EXCEPT !.hasId = FALSE]>> \o good] :
             k \in DOMAIN good }

\* invitation.get("invitee", {}).get("login", "") of a record whose invitee is
\* not null
LoginOf(rec) == IF rec.invitee = "user" THEN rec.login ELSE <<>>

\* invitation.get("id", 0)
IdOf(rec) == IF rec.hasId THEN rec.id ELSE 0

\* the logins are compared as they are spelled
LoginMatches_CaseSensitive(login, username) == login = username

\* the comparison of check_pending_invitation
LoginMatches(login, username) == Lower(login) = Lower(username)

\* the loop goes on to later records when a matching record has no id
ScanInvitations_SkipsIdless(recs, k, username) ==
    LET withId == { j \in k..Len(recs) :
                      /\ LoginMatches(LoginOf(recs[j]), username)
                      /\ IdOf(recs[j]) # 0 }
    IN  [raised |-> FALSE,
         id |-> IF withId = {} THEN 0
                ELSE IdOf(recs[CHOOSE j \in withId : \A i \in withId : j <= i])]

\* the loop returns the first record's id without comparing logins
ScanInvitations_FirstRecord(recs, k, username) ==
    IF k > Len(recs) THEN [raised |-> FALSE, id |-> 0]
    ELSE [raised |-> FALSE, id |-> IdOf(recs[k])]

\* the for loop of check_pending_invitation from position k on: the value the
\* function returns, or raised when .get is applied to None
RECURSIVE ScanInvitations(_, _, _)
ScanInvitations(recs, k, username) ==
    IF k > Len(recs) THEN [raised |-> FALSE, id |-> 0]
    ELSE IF recs[k].invitee = "null" THEN [raised |-> TRUE, id |-> 0]
    ELSE IF LoginMatches(LoginOf(recs[k]), username)
         THEN [raised |-> FALSE, id |-> IdOf(recs[k])]
    ELSE ScanInvitations(recs, k + 1, username)

\* check_pending_invitation on the answer (returncode, stdout)
check_pending_invitation(returncode, body, username) ==
    IF returncode = 0 /\ body.kind # "empty"
    THEN CASE body.kind = "notjson" -> [raised |-> FALSE, id |-> 0]
           [] body.kind = "object"  -> [raised |-> TRUE, id |-> 0]
           [] OTHER                 -> ScanInvitations(body.recs, 1, username)
    ELSE [raised |-> FALSE, id |-> 0]

\* a failed existence check is taken for "is a collaborator"
check_collaborator_Inverted(returncode) == returncode # 0

\* the status of the existence check is not looked at
check_collaborator_Never(returncode) == FALSE

\* check_collaborator on the answer's status
check_collaborator(returncode) == returncode = 0

\* --------------------------------------------------------- one run's steps
\* How a call of run_gh_command ends: the service answers according to its
\* state ("sound"), the call fails with a non-zero status whatever the state
\* ("fault": network, rate limit, permissions), or gh is not installed and
\* run_gh_command exits the process ("missing").
Transports == { "sound", "fault", "missing" }

\* a log entry: the call or tick, the invitation identifier a call carries or
\* the seconds a tick shows (0 when none), the status it returned (0, 1, or -1
\* when gh could not be started) and whether the answer was the service's
\* sound answer
Entry(op, id, rc, sound) == [op |-> op, id |-> id, rc |-> rc, sound |-> sound]

\* the answer of the prompt is not looked at
Proceeds_AnswerIgnored(y, answer) == TRUE

\* `if not yes: if not Confirm.ask(...): sys.exit(0)`: the run goes on
Proceeds(y, answer) == y \/ answer

\* the countdown is entered whatever the delay
AfterRemoval_AlwaysCountdown(d) == "countdown"

\* the countdown is left out
AfterRemoval_NoCountdown(d) == "invite"

\* `if delay > 0: countdown_delay(delay)`, then the invite
AfterRemoval(d) == IF d > 0 THEN "countdown" ELSE "invite"

\* the collaborator is revoked whatever the probe found
BranchOf_RevokeAlways(is_collab, inv_id) == "remove_collab"

\* a pending invitation is not cancelled before the invite
BranchOf_NoCancel(is_collab, inv_id) == IF is_collab THEN "remove_collab" ELSE "none"

\* the branch of main the probe's two results select
BranchOf(is_collab, inv_id) ==
    IF is_collab THEN "remove_collab"
    ELSE IF inv_id # 0 THEN "remove_inv"
    ELSE "none"

\* the CollaboratorState the two results stand for
StateOf(is_collab, inv_id) ==
    IF is_collab THEN "ActiveCollaborator"
    ELSE IF inv_id # 0 THEN "PendingInvitation"
    ELSE "NoRelationship"

\* the status of `gh auth status` is not looked at
Authenticated_Unchecked(rc) == TRUE

\* `if returncode != 0: ... sys.exit(1)` of check_gh_auth
Authenticated(rc) == rc = 0

\* the status of `gh repo view` is not looked at
RepositoryAccessible_Unchecked(rc) == TRUE

\* `if returncode != 0: ... return False` of validate_repository
RepositoryAccessible(rc) == rc = 0

\* the result of the removal is not looked at
RemovalSucceeded_Unchecked(rc) == TRUE

\* `if not remove_...(...): sys.exit(1)`
RemovalSucceeded(rc) == rc = 0

\* the invite is sent with click's default permission
InviteCall_DefaultPermission(repo, user, perm) ==
    [repo |-> repo, username |-> user, permission |-> "push"]

\* what invite_collaborator sends: PUT repos/{repo}/collaborators/{username}
\* with the field permission={permission}
InviteCall(repo, user, perm) ==
    [repo |-> repo, username |-> user, permission |-> perm]

\* the result of the invite is not looked at
InviteSucceeded_Unchecked(rc) == TRUE

\* `if not invite_collaborator(...): sys.exit(1)`
InviteSucceeded(rc) == rc = 0

\* the counter shows one second less than is left
Remaining_OffByOne(seconds, i) == seconds - i - 1

\* the counter countdown_delay shows in iteration i: `seconds - i`
Remaining(seconds, i) == seconds - i

\* the exit code of a finished run
ExitCode(kind) == IF kind \in {"done", "declined"} THEN 0 ELSE 1

VARIABLES
    collabs,          \* service: accounts with access to the repository
    invs,             \* service: the repository's pending invitations, in order
    usedIds,          \* service: invitation identifiers handed out so far
    repository, username, delay, permission, yes,   \* the command line
    pc,               \* where main is
    is_collaborator,  \* main's local
    invitation_id,    \* main's local
    listing,          \* the answer check_pending_invitation got
    answered,         \* "none", "skipped" (--yes), "yes", "no"
    elapsed,          \* countdown_delay's i
    log,              \* calls and ticks of this run, in order
    exit,             \* "" while running, else how the run ended
    atProbe,          \* the service's state when the probe read it
    probed,           \* the probe's result once it has returned, "" before
    runNo,            \* which run of the command line this is, from 1
    prev              \* what is kept of the run before this one

vars == <<collabs, invs, usedIds, repository, username, delay, permission, yes,
          pc, is_collaborator, invitation_id, listing, answered, elapsed, log,
          exit, atProbe, probed, runNo, prev>>

service == <<collabs, invs, usedIds>>
args == <<repository, username, delay, permission, yes>>

NoListing == [rc |-> -1, body |-> NoBody]
NoProbe == [collabs |-> {}, invs |-> <<>>]
NoRun == [exit |-> "", clean |-> FALSE, checked |-> FALSE, removed |-> FALSE]

Init ==
    /\ collabs \in CollaboratorSets
    /\ invs \in InvitationLists
    /\ usedIds = IdsOf(invs)
    /\ repository \in Repositories
    /\ username \in Usernames
    /\ delay \in Delays
    /\ permission \in Permissions
    /\ yes \in BOOLEAN
    /\ pc = "auth"
    /\ is_collaborator = FALSE
    /\ invitation_id = 0
    /\ listing = NoListing
    /\ answered = "none"
    /\ elapsed = 0
    /\ log = <<>>
    /\ exit = ""
    /\ atProbe = NoProbe
    /\ probed = ""
    /\ runNo = 1
    /\ prev = NoRun

\* sys.exit / return from main / an exception caught in run()
Finish(kind) == pc' = "exit" /\ exit' = kind

Goto(p) == pc' = p /\ exit' = exit

\* the status a call returns under transport t when the service's sound
\* status would be rc
StatusOf(t, rc) == CASE t = "sound" -> rc [] t = "fault" -> 1 [] OTHER -> -1

\* check_gh_auth
CheckGhAuth ==
    /\ pc = "auth"
    /\ \E t \in Transports :
         LET rc == StatusOf(t, 0) IN
         /\ log' = Append(log, Entry("auth_status", 0, rc, t = "sound"))
         /\ IF Authenticated(rc) THEN Goto("validate") ELSE Finish("failed")
    /\ UNCHANGED <<service, args, is_collaborator, invitation_id, listing,
                   answered, elapsed, atProbe, probed, runNo, prev>>

\* validate_repository and `if not validate_repository(...): sys.exit(1)`
ValidateRepository ==
    /\ pc = "validate"
    /\ IF ~FormatAccepted(repository)
       THEN /\ log' = log
            /\ Finish("failed")
       ELSE \E t \in Transports, found \in BOOLEAN :
              LET rc == StatusOf(t, RepoViewStatus(repository, found)) IN
              /\ log' = Append(log, Entry("repo_view", 0, rc, t = "sound"))
              /\ IF RepositoryAccessible(rc) THEN Goto("check_collab") ELSE Finish("failed")
    /\ UNCHANGED <<service, args, is_collaborator, invitation_id, listing,
                   answered, elapsed, atProbe, probed, runNo, prev>>

\* is_collaborator = check_collaborator(repository, username)
CheckCollaborator ==
    /\ pc = "check_collab"
    /\ \E t \in Transports :
         LET rc == StatusOf(t, CollaboratorStatus(collabs, username)) IN
         /\ log' = Append(log, Entry("check_collab", 0, rc, t = "sound"))
         /\ IF t = "missing"
            THEN /\ Finish("failed")
                 /\ UNCHANGED <<is_collaborator, probed>>
            ELSE /\ is_collaborator' = check_collaborator(rc)
                 /\ exit' = exit
                 /\ pc' = IF check_collaborator(rc) THEN "confirm" ELSE "check_inv"
                 /\ probed' = IF check_collaborator(rc) THEN "ActiveCollaborator" ELSE ""
    /\ atProbe' = [collabs |-> collabs, invs |-> invs]
    /\ UNCHANGED <<service, args, invitation_id, listing, answered, elapsed, runNo, prev>>

\* the answers the invitation listing can give: the sound one, a failure, or
\* status 0 with a body that is not the sound listing
ListingAnswers ==
    { [t |-> "sound", rc |-> 0, body |-> ListingOf(invs)],
      [t |-> "fault", rc |-> 1, body |-> NoBody],
      [t |-> "missing", rc |-> -1, body |-> NoBody] }
    \cup { [t |-> "fault", rc |-> 0, body |-> b] : b \in BrokenListings(invs) }

\* invitation_id = check_pending_invitation(repository, username)
CheckPendingInvitation ==
    /\ pc = "check_inv"
    /\ \E a \in ListingAnswers :
         LET r == check_pending_invitation(a.rc, a.body, username) IN
         /\ log' = Append(log, Entry("list_invitations", 0, a.rc, a.t = "sound"))
         /\ listing' = [rc |-> a.rc, body |-> a.body]
         /\ IF a.t = "missing"
            THEN Finish("failed") /\ UNCHANGED <<invitation_id, probed>>
            ELSE IF r.raised
            THEN Finish("error") /\ UNCHANGED <<invitation_id, probed>>
            ELSE /\ Goto("confirm")
                 /\ invitation_id' = r.id
                 /\ probed' = StateOf(FALSE, r.id)
    /\ atProbe' = [collabs |-> atProbe.collabs, invs |-> invs]
    /\ UNCHANGED <<service, args, is_collaborator, answered, elapsed, runNo, prev>>

\* the confirmation of the branch taken: no prompt under --yes
Confirmation ==
    /\ pc = "confirm"
    /\ \E answer \in (IF yes THEN {TRUE} ELSE BOOLEAN) :
         /\ answered' = IF yes THEN "skipped" ELSE IF answer THEN "yes" ELSE "no"
         /\ IF Proceeds(yes, answer)
            THEN LET b == BranchOf(is_collaborator, invitation_id) IN
                 Goto(IF b = "none" THEN AfterRemoval(delay) ELSE b)
            ELSE Finish("declined")
    /\ UNCHANGED <<service, args, is_collaborator, invitation_id, listing,
                   elapsed, log, atProbe, probed, runNo, prev>>

\* remove_pending_invitation and `if not ...: sys.exit(1)`
RemovePendingInvitation ==
    /\ pc = "remove_inv"
    /\ \E t \in Transports :
         LET rc == StatusOf(t, IF invitation_id \in IdsOf(invs) THEN 0 ELSE 1) IN
         /\ log' = Append(log, Entry("delete_invitation", invitation_id, rc, t = "sound"))
         /\ invs' = IF rc = 0 THEN AfterRemoveInvitation(invs, invitation_id) ELSE invs
         /\ IF RemovalSucceeded(rc) THEN Goto(AfterRemoval(delay)) ELSE Finish("failed")
    /\ UNCHANGED <<collabs, usedIds, args, is_collaborator, invitation_id,
                   listing, answered, elapsed, atProbe, probed, runNo, prev>>

\* remove_collaborator and `if not ...: sys.exit(1)`
RemoveCollaborator ==
    /\ pc = "remove_collab"
    /\ \E t \in Transports :
         LET rc == StatusOf(t, 0) IN
         /\ log' = Append(log, Entry("delete_collab", 0, rc, t = "sound"))
         /\ collabs' = IF rc = 0 THEN AfterRemoveCollaborator(collabs, username) ELSE collabs
         /\ IF RemovalSucceeded(rc) THEN Goto(AfterRemoval(delay)) ELSE Finish("failed")
    /\ UNCHANGED <<invs, usedIds, args, is_collaborator, invitation_id,
                   listing, answered, elapsed, atProbe, probed, runNo, prev>>

\* one iteration of countdown_delay's loop: time.sleep(1)
CountdownTick ==
    /\ pc = "countdown"
    /\ elapsed < delay
    /\ elapsed' = elapsed + 1
    /\ log' = Append(log, Entry("tick", Remaining(delay, elapsed), 0, TRUE))
    /\ Goto(IF elapsed + 1 < delay THEN "countdown" ELSE "invite")
    /\ UNCHANGED <<service, args, is_collaborator, invitation_id, listing,
                   answered, atProbe, probed, runNo, prev>>

\* invite_collaborator and the end of main
InviteCollaborator ==
    /\ pc = "invite"
    /\ \E t \in Transports :
         LET rc == StatusOf(t, 0)
             call == InviteCall(repository, username, permission) IN
         /\ log' = Append(log, Entry("invite", 0, rc, t = "sound") @@ [call |-> call])
         /\ invs' = IF rc = 0 THEN AfterInvite(collabs, invs, usedIds, call.username) ELSE invs
         /\ usedIds' = IF rc = 0
                        THEN usedIds \cup IdsOf(AfterInvite(collabs, invs, usedIds, call.username))
                        ELSE usedIds
         /\ IF InviteSucceeded(rc) THEN Finish("done") ELSE Finish("failed")
    /\ UNCHANGED <<collabs, args, is_collaborator, invitation_id, listing,
                   answered, elapsed, atProbe, probed, runNo, prev>>

\* KeyboardInterrupt anywhere in main, caught in run()
Interrupt ==
    /\ pc # "exit"
    /\ Finish("interrupted")
    /\ UNCHANGED <<service, args, is_collaborator, invitation_id, listing,
                   answered, elapsed, log, atProbe, probed, runNo, prev>>

\* what is kept of a finished run: "done" with whether every call got the
\* service's sound answer; "interrupted" or "failed" for a run that ended so
\* after its removal call had succeeded, with whether its collaborator check
\* had got the service's sound answer; "other" for a run that ended without
\* having changed anything
Summary(l, e) ==
    LET removed == \E i \in DOMAIN l :
                      l[i].op \in {"delete_collab", "delete_invitation"} /\ l[i].rc = 0
        partial == e \in {"interrupted", "failed"} /\ removed
    IN  [exit |-> IF e = "done" \/ partial THEN e ELSE "other",
         clean |-> e = "done" /\ \A i \in DOMAIN l : l[i].sound,
         checked |-> partial /\ \E i \in DOMAIN l :
                                    l[i].op = "check_collab" /\ l[i].sound,
         removed |-> partial]

\* the same command line is run again after the process has exited
Rerun ==
    /\ pc = "exit"
    /\ runNo < MaxRuns
    /\ runNo' = runNo + 1
    /\ prev' = Summary(log, exit)
    /\ pc' = "auth"
    /\ is_collaborator' = FALSE
    /\ invitation_id' = 0
    /\ listing' = NoListing
    /\ answered' = "none"
    /\ elapsed' = 0
    /\ log' = <<>>
    /\ exit' = ""
    /\ atProbe' = NoProbe
    /\ probed' = ""
    /\ UNCHANGED <<service, args>>

Next ==
    \/ CheckGhAuth
    \/ ValidateRepository
    \/ CheckCollaborator
    \/ CheckPendingInvitation
    \/ Confirmation
    \/ RemovePendingInvitation
    \/ RemoveCollaborator
    \/ CountdownTick
    \/ InviteCollaborator
    \/ Interrupt
    \/ Rerun

Spec == Init /\ [][Next]_vars

\* the steps of the run itself: every call returns and the prompt is answered
RunStep ==
    \/ CheckGhAuth
    \/ ValidateRepository
    \/ CheckCollaborator
    \/ CheckPendingInvitation
    \/ Confirmation
    \/ RemovePendingInvitation
    \/ RemoveCollaborator
    \/ CountdownTick
    \/ InviteCollaborator

\* one run on its own: its steps, or an interrupt
RunNext == RunStep \/ Interrupt

\* one run whose calls return and whose prompt is answered keeps stepping; an
\* interrupt may or may not come
FairSpec == Init /\ [][RunNext]_vars /\ WF_vars(RunStep)

\* ------------------------------------------------------- reading the log
Removals == { "delete_collab", "delete_invitation" }
Mutating == Removals \cup { "invite" }
Probes == { "check_collab", "list_invitations" }

Issued(l, ops) == \E i \in DOMAIN l : l[i].op \in ops
Count(l, ops) == Cardinality({ i \in DOMAIN l : l[i].op \in ops })
Finished == pc = "exit"

\* a removal call of this run came back with a failure status
RemovalFailed == \E i \in DOMAIN log : log[i].op \in Removals /\ log[i].rc # 0

\* ------------------------------------------------------------------ claims

\* C1: in every run where the removal call (revoke collaborator or cancel
\* pending invitation) returned a failure status, no invite call is issued and
\* the process has exited with a nonzero code.
C1_RemovalFailureAborts ==
    RemovalFailed =>
        /\ ~Issued(log, {"invite"})
        /\ Finished
        /\ ExitCode(exit) # 0

C1_Witness ==
    /\ Finished
    /\ \E i \in DOMAIN log : log[i].op = "delete_invitation" /\ log[i].rc = 1
    /\ yes

\* C2: a mutating call is in the run's log only if --yes was given or the
\* prompt was answered yes; a run whose prompt was answered no has no mutating
\* call and exit code 0, whatever the probed state.
C2_ConfirmationGate ==
    /\ Issued(log, Mutating) => (yes \/ answered = "yes")
    /\ answered = "no" =>
          /\ ~yes
          /\ ~Issued(log, Mutating)
          /\ Finished
          /\ exit = "declined"
          /\ ExitCode(exit) = 0

C2_Witness ==
    /\ answered = "no"
    /\ probed = "PendingInvitation"
    /\ Finished

\* C3: a finished run that passed authentication, repository validation and
\* confirmation, was not interrupted and had no failed removal has exactly one
\* invite call, as the last entry of its log, after exactly `delay` ticks, the
\* ticks coming after the removal call if there is one; this in each of the
\* three branches.
C3_InviteAlwaysFollows ==
    ( /\ Finished
      /\ answered \in {"skipped", "yes"}
      /\ exit # "interrupted"
      /\ ~RemovalFailed )
    =>
    /\ Count(log, {"invite"}) = 1
    /\ log[Len(log)].op = "invite"
    /\ Count(log, {"tick"}) = delay
    /\ \A i \in DOMAIN log : log[i].op = "tick" =>
           /\ \A j \in DOMAIN log : log[j].op \in Removals => j < i
           /\ \A j \in DOMAIN log : log[j].op = "invite" => i < j
    /\ Count(log, Removals) = IF probed = "NoRelationship" THEN 0 ELSE 1

C3_Witness ==
    /\ Finished
    /\ exit = "done"
    /\ probed = "NoRelationship"
    /\ delay > 0
    /\ answered = "yes"

\* the invitations of list that are for the account username names
InvitationsFor(list, u) == { k \in DOMAIN list : list[k].login = Resolve(u) }

\* the operations of a log, in order
OpsOf(l) == [i \in DOMAIN l |-> l[i].op]

\* every call of the log got the service's sound answer
Clean(l) == \A i \in DOMAIN l : l[i].sound

\* C4: when the tool with --yes and delay 0 has run to success twice in
\* succession on the same repository and username, every call answered soundly
\* by the service, the second run found the invitation the first run left,
\* cancelled it by its identifier and invited again: the user holds exactly
\* one invitation, and it is a new one.
C4_TwiceLeavesOneInvitation ==
    ( /\ runNo >= 2
      /\ prev.exit = "done" /\ prev.clean
      /\ yes /\ delay = 0
      /\ Finished /\ exit = "done" /\ Clean(log) )
    =>
    /\ Cardinality(InvitationsFor(invs, username)) = 1
    /\ probed = "PendingInvitation"
    /\ OpsOf(log) = <<"auth_status", "repo_view", "check_collab",
                      "list_invitations", "delete_invitation", "invite">>
    /\ \E k \in InvitationsFor(atProbe.invs, username) :
          /\ InvitationsFor(atProbe.invs, username) = {k}
          /\ log[5].id = atProbe.invs[k].id
          /\ \A j \in InvitationsFor(invs, username) : invs[j].id # atProbe.invs[k].id

C4_Witness ==
    /\ runNo = 2
    /\ prev.exit = "done" /\ prev.clean
    /\ yes /\ delay = 0
    /\ Finished /\ exit = "done" /\ Clean(log)
    /\ username = <<"a", "l">>
    /\ Len(invs) = 2

\* C5: when the repository argument has a bad format the run makes no API
\* call at all (the authentication status check included) and exits nonzero.
C5_NoCallOnBadFormat ==
    ~WellFormedRepo(repository) =>
        /\ log = <<>>
        /\ Finished => ExitCode(exit) # 0

\* C6: a probe call or a mutating call is in the log only after the
\* authentication status check and the repository metadata fetch of the same
\* run both returned success; a failed authentication check ends the run
\* nonzero with no further call, a failed repository fetch ends it nonzero
\* with no probe or mutating call.
C6_SetupBeforeProbe ==
    /\ Issued(log, Probes \cup Mutating) =>
          /\ Len(log) >= 3
          /\ log[1].op = "auth_status" /\ log[1].rc = 0
          /\ log[2].op = "repo_view" /\ log[2].rc = 0
          /\ \A i \in DOMAIN log : log[i].op \in Probes \cup Mutating => i > 2
    /\ (\E i \in DOMAIN log : log[i].op = "auth_status" /\ log[i].rc # 0) =>
          /\ Finished /\ ExitCode(exit) # 0
          /\ Len(log) = 1
    /\ (\E i \in DOMAIN log : log[i].op = "repo_view" /\ log[i].rc # 0) =>
          /\ Finished /\ ExitCode(exit) # 0
          /\ ~Issued(log, Probes \cup Mutating)

C6_Witness ==
    /\ Finished
    /\ Len(log) = 2
    /\ log[1].op = "auth_status" /\ log[1].rc = 0
    /\ log[2].op = "repo_view" /\ log[2].rc = 1

\* C7: the format check lets a repository string through to the metadata
\* fetch only if it has exactly one "/" splitting two non-empty segments.
C7_FormatCheckStrict ==
    Issued(log, {"repo_view"}) => WellFormedRepo(repository)

\* the probe's read of op got the service's sound answer
SoundRead(op) == \E i \in DOMAIN log : log[i].op = op /\ log[i].sound

\* the user was a collaborator when the probe read the service
WasCollaborator == Resolve(username) \in atProbe.collabs

\* the invitations the repository held for the user, up to letter case, when
\* the probe read the service
WasInvited ==
    { k \in DOMAIN atProbe.invs : Lower(atProbe.invs[k].login) = Lower(username) }

\* the run is on the revoke-collaborator branch: it has not listed or deleted
\* invitations, and once confirmed its next call is the revocation
OnRevokeBranch ==
    /\ probed = "ActiveCollaborator"
    /\ is_collaborator
    /\ ~Issued(log, {"list_invitations", "delete_invitation"})
    /\ Issued(log, {"invite"}) => Issued(log, {"delete_collab"})
    /\ (answered \in {"skipped", "yes"} /\ ~Issued(log, {"delete_collab"})) =>
          (pc = "remove_collab" \/ exit = "interrupted")

\* C8 as stated: once the existence check has returned, every username that
\* is in the collaborator list is classified ActiveCollaborator, whatever the
\* invitation list holds, and the run is on the revoke-collaborator branch.
C8_CollaboratorAlwaysActive ==
    ( /\ \E i \in DOMAIN log : log[i].op = "check_collab" /\ log[i].rc # -1
      /\ WasCollaborator )
    => OnRevokeBranch

\* C8 amended: every username that is in the collaborator list and whose
\* existence check got the service's answer (status 0) is classified
\* ActiveCollaborator, whatever the invitation list holds; the run is on the
\* revoke-collaborator branch and issues no delete-invitation call.
C8_CollaboratorActiveWhenCheckAnswers ==
    (SoundRead("check_collab") /\ WasCollaborator) => OnRevokeBranch

C8_Witness ==
    /\ SoundRead("check_collab") /\ WasCollaborator
    /\ WasInvited # {}
    /\ Finished /\ exit = "done"
    /\ OpsOf(log) = <<"auth_status", "repo_view", "check_collab", "delete_collab", "invite">>

\* the probe returned PendingInvitation with the identifier of an invitation
\* the repository held for the user
FoundInvitation ==
    /\ probed = "PendingInvitation"
    /\ \E k \in WasInvited : invitation_id = atProbe.invs[k].id

\* C9 as stated: whenever the probe returns for a non-collaborator whose
\* login, up to letter case, is the invitee of an invitation in the list, it
\* returns PendingInvitation with that invitation's identifier.
C9_InvitationAlwaysFound ==
    (probed # "" /\ ~WasCollaborator /\ WasInvited # {}) => FoundInvitation

\* C9 amended: the same, for a listing call that returned status 0 with the
\* sound listing of the repository's invitations.
C9_InvitationFoundWhenListed ==
    ( /\ probed # "" /\ ~WasCollaborator /\ WasInvited # {}
      /\ SoundRead("list_invitations") )
    => FoundInvitation

C9_Witness ==
    /\ probed = "PendingInvitation"
    /\ SoundRead("list_invitations")
    /\ username = <<"a", "l">>
    /\ Len(atProbe.invs) = 2
    /\ atProbe.invs[2].login = <<"A", "l">>
    /\ invitation_id = atProbe.invs[2].id

\* C10: whenever the probe returns for a username that is neither in the
\* collaborator list nor, up to letter case, an invitee of the invitation
\* list, it returns NoRelationship, and the run issues no removal call.
C10_AbsentIsNoRelationship ==
    (probed # "" /\ ~WasCollaborator /\ WasInvited = {}) =>
        /\ probed = "NoRelationship"
        /\ ~is_collaborator /\ invitation_id = 0
        /\ ~Issued(log, Removals)

C10_Witness ==
    /\ probed = "NoRelationship"
    /\ ~WasCollaborator /\ WasInvited = {}
    /\ Len(atProbe.invs) = 1
    /\ SoundRead("list_invitations")
    /\ Issued(log, {"invite"})

\* the ticks of the log, in order
TicksOf(l) == { i \in DOMAIN l : l[i].op = "tick" }

\* C11: the countdown makes exactly `delay` one-second iterations before the
\* invite, the counter shown going down by one from `delay` to 1; a wait of
\* zero seconds has no iteration, and a run with delay 0 skips the delay step:
\* no tick, and the invite follows the removal step (or the confirmation)
\* directly.
C11_CountdownTicks ==
    /\ Count(log, {"tick"}) = elapsed
    /\ elapsed <= delay
    /\ \A i \in TicksOf(log) :
          log[i].id = delay - Cardinality({ j \in TicksOf(log) : j < i })
    /\ (pc = "invite" \/ Issued(log, {"invite"})) => Count(log, {"tick"}) = delay
    /\ pc = "countdown" => (delay > 0 /\ elapsed < delay)
    /\ delay = 0 =>
          /\ ~Issued(log, {"tick"})
          /\ \A i \in DOMAIN log : log[i].op = "invite" =>
                log[i - 1].op \in Removals \cup Probes

C11_Witness ==
    /\ delay > 1
    /\ Issued(log, {"delete_collab"})
    /\ Issued(log, {"invite"})
    /\ Count(log, {"tick"}) = delay
    /\ log[Len(log) - 2].op = "tick" /\ log[Len(log) - 2].id = 2
    /\ log[Len(log) - 1].op = "tick" /\ log[Len(log) - 1].id = 1

\* the invite call of this run returned success
InviteReturnedSuccess == \E i \in DOMAIN log : log[i].op = "invite" /\ log[i].rc = 0

RemovalReturnedSuccess == \E i \in DOMAIN log : log[i].op \in Removals /\ log[i].rc = 0

\* what the removal call of this run removed is not there
RemovalStands ==
    /\ (\E i \in DOMAIN log : log[i].op = "delete_collab" /\ log[i].rc = 0)
          => Resolve(username) \notin collabs
    /\ (\E i \in DOMAIN log : log[i].op = "delete_invitation" /\ log[i].rc = 0)
          => InvitationsFor(invs, username) = {}

\* a --yes run that ended after a successful removal and without a successful
\* invite: it was interrupted or its invite failed, what it removed stays
\* removed, and it made no call after the removal but the failed invite
PartialRunLeavesRemoval ==
    (Finished /\ yes /\ RemovalReturnedSuccess /\ ~InviteReturnedSuccess) =>
        /\ exit \in {"interrupted", "failed"}
        /\ RemovalStands
        /\ Count(log, Mutating) <= 2
        /\ \A i \in DOMAIN log : log[i].op = "invite" => log[i].rc # 0

\* this run is a finished, successful, uninterrupted --yes run, all its calls
\* answered soundly, that follows a run which ended after a successful removal
\* and without a successful invite
RerunAfterPartialRun ==
    /\ runNo >= 2
    /\ prev.removed /\ prev.exit \in {"interrupted", "failed"}
    /\ yes
    /\ Finished /\ exit = "done" /\ Clean(log)

\* the rerun probed NoRelationship, or PendingInvitation when an invitation was
\* there, cancelled that invitation, and left exactly one invitation
RerunRepairs ==
    /\ probed = IF WasInvited # {} THEN "PendingInvitation" ELSE "NoRelationship"
    /\ probed = "PendingInvitation" <=> Issued(log, {"delete_invitation"})
    /\ ~Issued(log, {"delete_collab"})
    /\ Cardinality(InvitationsFor(invs, username)) = 1
    /\ \A j \in InvitationsFor(invs, username) : invs[j].id \notin IdsOf(atProbe.invs)
    /\ Resolve(username) \notin collabs

\* C13 as stated: a --yes run that ends after its removal succeeded and before
\* an invite succeeded leaves the removal in place and undoes nothing; the
\* next --yes run on the same repository and username, uninterrupted and with
\* every call succeeding, probes NoRelationship (or PendingInvitation if an
\* invitation exists) and ends with exactly one invitation for the user.
C13_RerunAfterAnyPartialRun ==
    /\ PartialRunLeavesRemoval
    /\ RerunAfterPartialRun => RerunRepairs

\* C13 amended: the same, for a first run whose collaborator-existence check
\* was answered by the service.
C13_RerunAfterCheckedPartialRun ==
    /\ PartialRunLeavesRemoval
    /\ (RerunAfterPartialRun /\ prev.checked) => RerunRepairs

C13_Witness ==
    /\ RerunAfterPartialRun /\ prev.checked
    /\ runNo = 2
    /\ prev.exit = "interrupted"
    /\ probed = "PendingInvitation"
    /\ delay > 0

\* the listing answered with status 0 and a body that is not JSON, is not a
\* list, or is a list with a record whose invitee is null
MalformedListing ==
    /\ listing # NoListing
    /\ listing.rc = 0
    /\ \/ listing.body.kind \in {"notjson", "object"}
       \/ \E k \in DOMAIN listing.body.recs : listing.body.recs[k].invitee = "null"

\* C14: a malformed or unparsable invitation listing is treated as no pending
\* invitation: the probe yields NoRelationship and the run is not failed by
\* it but goes on to the confirmation.
C14_MalformedListingDegrades ==
    MalformedListing =>
        /\ probed = "NoRelationship"
        /\ exit \notin {"error", "failed"} \/ Issued(log, Mutating)

\* the removal step is over and the run went on: the countdown or the invite
\* is next or has begun
PastRemoval == pc \in {"countdown", "invite"} \/ Issued(log, {"tick", "invite"})

\* C15: the removal step issues the one call that matches the probed state and
\* no other: for ActiveCollaborator one revoke call for the username and no
\* delete-invitation call, for PendingInvitation(id) one delete-invitation
\* call carrying the probed id and no revoke call, for NoRelationship no
\* removal call, the step counting as success.
C15_RemovalMatchesProbe ==
    /\ Count(log, Removals) <= 1
    /\ Issued(log, {"delete_collab"}) => probed = "ActiveCollaborator"
    /\ Issued(log, {"delete_invitation"}) => probed = "PendingInvitation"
    /\ \A i \in DOMAIN log :
          /\ log[i].op = "delete_invitation" =>
                log[i].id = invitation_id /\ invitation_id # 0
          /\ (log[i].op = "delete_collab" /\ log[i].sound) =>
                collabs = atProbe.collabs \ {Resolve(username)}
    /\ PastRemoval =>
          /\ probed = "ActiveCollaborator" => Count(log, {"delete_collab"}) = 1
          /\ probed = "PendingInvitation" => Count(log, {"delete_invitation"}) = 1
          /\ probed = "NoRelationship" => Count(log, Removals) = 0
          /\ \A i \in DOMAIN log : log[i].op \in Removals => log[i].rc = 0
    /\ (probed = "NoRelationship" /\ answered \in {"yes", "skipped"}
           /\ exit # "interrupted") => PastRemoval

C15_Witness ==
    /\ probed = "PendingInvitation"
    /\ Issued(log, {"invite"})
    /\ \E i \in DOMAIN log :
          log[i].op = "delete_invitation" /\ log[i].id = invitation_id /\ log[i].id = 2

\* the place of a call or tick in the workflow
StageOf(op) ==
    CASE op = "auth_status" -> 1
      [] op = "repo_view" -> 2
      [] op = "check_collab" -> 3
      [] op = "list_invitations" -> 4
      [] op \in Removals -> 5
      [] op = "tick" -> 6
      [] OTHER -> 7

\* a step of the run failed: a call could not be started, a setup, removal or
\* invite call returned a non-zero status, or the probe raised; a non-zero
\* status of a probe read is not a failure of the probe
StepFailed(l, e) ==
    \/ \E i \in DOMAIN l : l[i].rc # 0 /\ (l[i].op \notin Probes \/ l[i].rc = -1)
    \/ e \in {"failed", "error"}

\* C16: within one run every hosting-service call is attempted at most once,
\* no step is gone back to, and once a step fails the run is in the terminal
\* failed state with that call as its last: no further call is issued, and a
\* failed invite is not followed by a call that undoes the removal.
C16_NoRetryNoRollback ==
    /\ \A i, j \in DOMAIN log :
          i < j => \/ StageOf(log[i].op) < StageOf(log[j].op)
                   \/ log[i].op = "tick" /\ log[j].op = "tick"
    /\ Count(log, Removals) <= 1
    /\ StepFailed(log, exit) =>
          /\ Finished /\ exit \in {"failed", "error"}
          /\ \A i \in DOMAIN log :
                (log[i].rc # 0 /\ (log[i].op \notin Probes \/ log[i].rc = -1)) => i = Len(log)
    /\ exit = "error" => log # <<>> /\ log[Len(log)].op = "list_invitations"
    /\ \A i \in DOMAIN log :
          (log[i].op = "invite" /\ log[i].rc # 0) =>
              /\ i = Len(log)
              /\ invs = (IF Issued(log, {"delete_invitation"})
                         THEN AfterRemoveInvitation(atProbe.invs, invitation_id)
                         ELSE atProbe.invs)
                 \/ \E k \in DOMAIN log : log[k].op \in Removals /\ ~log[k].sound
              /\ collabs \subseteq atProbe.collabs

C16_Witness ==
    /\ exit = "failed"
    /\ delay > 0
    /\ Issued(log, {"delete_collab"})
    /\ log[Len(log)].op = "invite" /\ log[Len(log)].rc = 1
    /\ Resolve(username) \notin collabs /\ Resolve(username) \in atProbe.collabs

\* C17: the mutating steps occur in the order removal, delay, invite: a
\* removal call has returned success before the first tick, the invite is
\* issued only after all `delay` ticks (a pending invitation with delay 2
\* gives delete invitation, two ticks, invite), and the invite carries the
\* repository, username and permission the run was started with.
C17_RemovalDelayInvite ==
    /\ \A i, j \in DOMAIN log :
          (log[i].op \in Removals /\ log[j].op \in {"tick", "invite"}) =>
              i < j /\ log[i].rc = 0
    /\ \A i, j \in DOMAIN log :
          (log[i].op = "tick" /\ log[j].op = "invite") => i < j
    /\ \A j \in DOMAIN log :
          log[j].op = "invite" =>
              /\ Cardinality({ i \in TicksOf(log) : i < j }) = delay
              /\ log[j].call.repo = repository
              /\ log[j].call.username = username
              /\ log[j].call.permission = permission
              /\ permission \in Permissions

C17_Witness ==
    /\ delay = MaxDelay
    /\ Len(log) = 6 + delay
    /\ log[5].op = "delete_invitation" /\ log[5].id = 2
    /\ \A i \in 6..(5 + delay) : log[i].op = "tick"
    /\ log[6 + delay].op = "invite" /\ log[6 + delay].call.username = <<"a", "l">>
    /\ exit = "done"

\* the collaborator-existence check returned a non-zero status
CheckFailed == \E i \in DOMAIN log : log[i].op = "check_collab" /\ log[i].rc = 1

\* the invitation listing returned a non-zero status or an empty body
ListingFailed ==
    /\ \E i \in DOMAIN log : log[i].op = "list_invitations"
    /\ listing.rc = 1 \/ (listing.rc = 0 /\ listing.body.kind = "empty")

\* C18: a non-zero status of the collaborator-existence check is taken for
\* "not a collaborator", never for a failure: the run goes on to list the
\* invitations; a non-zero status or empty body of the listing is taken for
\* no invitation; a run whose two probe reads both fail proceeds as
\* NoRelationship and, once confirmed, invites without a removal call, even
\* if the user is a collaborator.
C18_FailedProbeReadsAreNoRelationship ==
    /\ CheckFailed =>
          /\ ~is_collaborator
          /\ log[Len(log)].op = "check_collab" => (pc = "check_inv" \/ exit = "interrupted")
          /\ pc \notin {"check_inv", "exit"} => Issued(log, {"list_invitations"})
          /\ ~Issued(log, {"delete_collab"})
    /\ ListingFailed =>
          /\ invitation_id = 0
          /\ probed = "NoRelationship"
          /\ log[Len(log)].op = "list_invitations" => exit \notin {"failed", "error"}
    /\ (CheckFailed /\ ListingFailed) =>
          /\ ~Issued(log, Removals)
          /\ (answered \in {"yes", "skipped"} /\ exit # "interrupted") => PastRemoval
          /\ exit \in {"failed", "error"} => log[Len(log)].op = "invite"

C18_Witness ==
    /\ CheckFailed /\ ListingFailed
    /\ listing.rc = 1
    /\ Resolve(username) \in atProbe.collabs
    /\ Resolve(username) \in collabs
    /\ exit = "done"
    /\ ~Issued(log, Removals)

\* the calls and ticks of the run so far are within two setup reads, two probe
\* reads, one removal call, `delay` ticks and one invite call, and a finished
\* run has ended in one of the terminal states
RunWithinBound ==
    /\ Count(log, {"auth_status"}) <= 1 /\ Count(log, {"repo_view"}) <= 1
    /\ Count(log, {"check_collab"}) <= 1 /\ Count(log, {"list_invitations"}) <= 1
    /\ Count(log, Removals) <= 1
    /\ Count(log, {"tick"}) <= delay
    /\ Count(log, {"invite"}) <= 1
    /\ Len(log) <= 6 + delay
    /\ Finished <=> exit \in {"done", "failed", "error", "declined", "interrupted"}

\* C19: every run terminates: whatever the delay, the answers of the service
\* and the answer to the prompt, a run whose calls return reaches a terminal
\* state after at most two setup reads, two probe reads, one removal call,
\* `delay` ticks and one invite call.
C19_Terminates == []RunWithinBound /\ ((pc # "exit") ~> (pc = "exit"))

C19_Witness ==
    /\ Finished /\ exit = "done"
    /\ delay = MaxDelay
    /\ Len(log) = 6 + delay
    /\ Count(log, Removals) = 1 /\ Count(log, Probes) = 2


\* the positions of the listed records whose invitee login is the username,
\* letter case aside
MatchingRecords ==
    { k \in DOMAIN listing.body.recs :
        /\ listing.body.recs[k].invitee = "user"
        /\ Lower(listing.body.recs[k].login) = Lower(username) }

\* the first of them in list order
FirstMatching == CHOOSE k \in MatchingRecords : \A j \in MatchingRecords : k <= j

\* the listing answered with a list and the probe returned from it
ProbedFromList ==
    /\ Issued(log, {"list_invitations"})
    /\ listing.rc = 0 /\ listing.body.kind = "list"
    /\ probed # ""

\* C20: the invitation result of the probe is decided by the first record in
\* list order whose invitee login matches the username case-insensitively; if
\* that record has no id field or id 0 the probe reports no pending
\* invitation, later matching records are not examined, and the run takes
\* the NoRelationship branch and invites without a delete-invitation call.
C20_FirstMatchDecides ==
    ProbedFromList =>
        /\ MatchingRecords = {} => invitation_id = 0
        /\ MatchingRecords # {} =>
              LET first == listing.body.recs[FirstMatching] IN
              /\ invitation_id = (IF first.hasId THEN first.id ELSE 0)
              /\ (~first.hasId \/ first.id = 0) =>
                    /\ probed = "NoRelationship"
                    /\ ~Issued(log, Removals)
                    /\ (answered \in {"yes", "skipped"} /\ exit # "interrupted")
                          => PastRemoval

C20_Witness ==
    /\ ProbedFromList
    /\ Cardinality(MatchingRecords) = 2
    /\ ~listing.body.recs[FirstMatching].hasId
    /\ \E k \in MatchingRecords : listing.body.recs[k].hasId /\ listing.body.recs[k].id # 0
    /\ username # Resolve(username)
    /\ probed = "NoRelationship"
    /\ exit = "done"
    /\ InvitationsFor(atProbe.invs, username) # {}

====
